---- MODULE Spec2Model ----
(***************************************************************************)
(* Model of DAID/app.py: process start-up (module import, .env loading,    *)
(* app.run) and the POST /api/generate_analysis handler.                   *)
(***************************************************************************)
EXTENDS Integers, Sequences, FiniteSets, Bags, TLC

VARIABLES pc, shellEnv, environ, dotenvFile, runAsMain, werkzeugRunMain,
          errorsModule, GEMINI_API_KEY, provider, inflight, first, last, gap,
          handled

vars == <<pc, shellEnv, environ, dotenvFile, runAsMain, werkzeugRunMain,
          errorsModule, GEMINI_API_KEY, provider, inflight, first, last, gap,
          handled>>

(* ---------------------------- bounds ----------------------------------- *)

\* Number of requests a behaviour receives after the server is up.
MaxRequests == 3

(* ---------------------- Python / JSON values --------------------------- *)

\* Python None: an unset environment variable, os.environ.get's default.
None == "<None>"

EnvKey == "env-key"

FileKey == "file-key"

\* Values the GEMINI_API_KEY entry of an environment can have.
EnvValues == {None, "", EnvKey}

\* Values the GEMINI_API_KEY line of the .env file can have (None: no line).
DotenvValues == {None, FileKey}

\* JSON values as the parsed Python objects: the type, the content of a str,
\* the number of an int (of a bool: 0/1), the elements of a list, the
\* <<key, value>> pairs of a dict in insertion order.  A str (and a dict key)
\* is the sequence of its characters, each a one-character string: printable
\* characters and the control characters LF, TAB, CR and FF.  JSON floats
\* and the other control characters are left out.
JStr(s) == [type |-> "str", s |-> s, n |-> 0, items |-> <<>>]

JInt(n) == [type |-> "int", s |-> <<>>, n |-> n, items |-> <<>>]

JBool(b) == [type |-> "bool", s |-> <<>>, n |-> IF b THEN 1 ELSE 0, items |-> <<>>]

JNull == [type |-> "NoneType", s |-> <<>>, n |-> 0, items |-> <<>>]

JList(items) == [type |-> "list", s |-> <<>>, n |-> 0, items |-> items]

JDict(pairs) == [type |-> "dict", s |-> <<>>, n |-> 0, items |-> pairs]

\* Python truthiness of a parsed JSON value (the operand of `not`).
Truthy(v) ==
    CASE v.type = "str" -> Len(v.s) # 0
      [] v.type = "int" -> v.n # 0
      [] v.type = "bool" -> v.n = 1
      [] v.type = "NoneType" -> FALSE
      [] v.type = "list" -> Len(v.items) # 0
      [] v.type = "dict" -> Len(v.items) # 0

\* Python truthiness of the credential (None or a str).
TruthyKey(k) == k # None /\ k # ""

Digits == <<"0", "1", "2", "3", "4", "5", "6", "7", "8", "9">>

RECURSIVE IntStr(_)
\* str(n) of an int.
IntStr(n) ==
    IF n < 0 THEN "-" \o IntStr(-n)
    ELSE IF n < 10 THEN Digits[n + 1]
    ELSE IntStr(n \div 10) \o Digits[(n % 10) + 1]

RECURSIVE Concat(_)
\* The str made of the characters.
Concat(chars) ==
    IF Len(chars) = 0 THEN "" ELSE chars[1] \o Concat(Tail(chars))

\* The quote repr() encloses a str in: double quotes when the str holds a
\* single quote and no double quote, single quotes otherwise.
ReprQuote(chars) ==
    IF (\E i \in 1..Len(chars) : chars[i] = "'")
       /\ ~(\E i \in 1..Len(chars) : chars[i] = "\"")
    THEN "\"" ELSE "'"

\* One character as repr() writes it inside the given quotes.
ReprChar(c, quote) ==
    CASE c = "\\" -> "\\\\"
      [] c = "\n" -> "\\n"
      [] c = "\t" -> "\\t"
      [] c = "\r" -> "\\r"
      [] c = "\f" -> "\\x0c"
      [] c = quote -> "\\" \o c
      [] OTHER -> c

RECURSIVE ReprChars(_, _)
ReprChars(chars, quote) ==
    IF Len(chars) = 0 THEN ""
    ELSE ReprChar(chars[1], quote) \o ReprChars(Tail(chars), quote)

\* repr(s) of a str.
ReprStr(chars) ==
    ReprQuote(chars) \o ReprChars(chars, ReprQuote(chars)) \o ReprQuote(chars)

RECURSIVE Repr(_)
RECURSIVE ReprItems(_)
RECURSIVE ReprPairs(_)
\* repr(v), which str() of a list or dict applies to the elements.
Repr(v) ==
    CASE v.type = "str" -> ReprStr(v.s)
      [] v.type = "int" -> IntStr(v.n)
      [] v.type = "bool" -> IF v.n = 1 THEN "True" ELSE "False"
      [] v.type = "NoneType" -> "None"
      [] v.type = "list" -> "[" \o ReprItems(v.items) \o "]"
      [] v.type = "dict" -> "{" \o ReprPairs(v.items) \o "}"

ReprItems(items) ==
    IF Len(items) = 0 THEN ""
    ELSE IF Len(items) = 1 THEN Repr(items[1])
    ELSE Repr(items[1]) \o ", " \o ReprItems(Tail(items))

ReprPairs(pairs) ==
    IF Len(pairs) = 0 THEN ""
    ELSE IF Len(pairs) = 1
    THEN ReprStr(pairs[1][1]) \o ": " \o Repr(pairs[1][2])
    ELSE ReprStr(pairs[1][1]) \o ": " \o Repr(pairs[1][2]) \o ", "
         \o ReprPairs(Tail(pairs))

\* str(v) as used by an f-string replacement field.
Format(v) == IF v.type = "str" THEN Concat(v.s) ELSE Repr(v)

\* dict.get(key, default)
DictGet(d, k, default) == IF k \in DOMAIN d THEN d[k] ELSE default

(* --------------------------- request bodies ---------------------------- *)

\* Parsed values a client may send under a key of the JSON object.
FieldValues ==
    {JStr(<<>>), JStr(<<"4", "2">>), JInt(0), JInt(42), JNull, JBool(FALSE),
     JList(<<>>), JList(<<JInt(-7), JStr(<<"i", "t", "'", "s", "\n">>)>>)}

\* JSON objects over the keys 'userInput' and 'userQuery' (as Python dicts).
Objects ==
    {<<>>}
    \cup {("userInput" :> v) : v \in FieldValues}
    \cup {("userQuery" :> JStr(<<"4", "2">>))}
    \cup {("userInput" :> JStr(<<>>)) @@ ("userQuery" :> JStr(<<"4", "2">>))}

\* A request body: kind "malformed" is a body request.json cannot parse (or a
\* non-JSON content type), "list" a JSON document that is not an object
\* (a list, and likewise null, a string or a number: none has a get method),
\* "dict" a JSON object.
Bodies ==
    {[kind |-> k, obj |-> <<>>] : k \in {"malformed", "list"}}
    \cup {[kind |-> "dict", obj |-> o] : o \in Objects}

(* ------------------------------ provider ------------------------------- *)

JsonText == "{\"analyses\": []}"

BrokenJsonText == "{\"analyses\": ["

\* Texts response.text can hold.
Texts == {JsonText, BrokenJsonText}

\* The class the name APIError is bound to by line 5.
APIError == "google.generativeai.errors.APIError"

\* The class the google.genai client of line 4 raises for an API failure.
GenaiAPIError == "google.genai.errors.APIError"

\* Exception classes raised in the try block (all subclasses of Exception).
ProviderExceptionClasses == {APIError, GenaiAPIError, "TimeoutError"}

Messages == {"429 RESOURCE_EXHAUSTED"}

Exc(cls, msg) == [cls |-> cls, msg |-> msg]

\* What one call of client.models.generate_content does.
Outcomes ==
    {[kind |-> "return", text |-> t, exc |-> Exc("", "")] : t \in Texts}
    \cup {[kind |-> "raise", text |-> "", exc |-> Exc(c, m)] :
            c \in ProviderExceptionClasses, m \in Messages}

\* The system instruction of lines 55-86 (its output-format sentence).
system_instruction ==
    [persona |-> "Decision & Action Intelligence Designer (DAID)",
     output_format |-> "STRICTLY as a JSON object"]

\* The f-string of lines 89-95, as its fragments.
full_prompt(user_input) ==
    <<"Please generate a detailed and logical decision analysis report based on the users input and system prompt:\n\n",
      "--- CONSOLIDATED USER DATA ---\n",
      Format(user_input), "\n",
      "--- END OF DATA ---\n",
      "Provide a professional decision analysis report formatted strictly in Markdown.">>

\* The contents a call can carry: the prompts of the truthy field values.
Prompts == {full_prompt(v) : v \in {w \in FieldValues : Truthy(w)}}

\* A deterministic provider: the outcome is a function of the contents.
Providers == [Prompts -> Outcomes]

(* ------------------------------ responses ------------------------------ *)

\* jsonify(payload), status: the JSON envelope and the HTTP status.
Response(json, status) == [json |-> json, status |-> status]

\* Line 42.
ConfigErrorResponse ==
    Response(("error" :> <<"Server configuration error: Gemini API key is missing. Please set the GEMINI_API_KEY environment variable.">>)
             @@ ("success" :> FALSE), 500)
\* Variant: the status code left off the return, so Flask answers 200.
NoInputResponseDefaultStatus ==
    Response(("error" :> <<"No user input provided for analysis.">>)
             @@ ("success" :> FALSE), 200)

\* Line 50.
NoInputResponse ==
    Response(("error" :> <<"No user input provided for analysis.">>)
             @@ ("success" :> FALSE), 400)
\* Variant: the JSON-mode shaping, the text handed back under analysisData.
SuccessResponseJsonMode(text) ==
    Response(("analysisData" :> text) @@ ("success" :> TRUE), 200)

\* Lines 110-113: no status given, so Flask's default 200.
SuccessResponse(text) ==
    Response(("analysisText" :> text) @@ ("success" :> TRUE), 200)

\* Line 118: the f-string embeds str(e).
APIErrorResponse(e) ==
    Response(("error" :> <<"AI generation failed due to API error: ", e.msg>>)
             @@ ("success" :> FALSE), 500)
\* Variant: the logged f-string of line 121 returned to the caller.
InternalErrorResponseLeaking(e) ==
    Response(("error" :> <<"Internal Server Error: ", e.msg>>)
             @@ ("success" :> FALSE), 500)

\* Line 122.
InternalErrorResponse(e) ==
    Response(("error" :> <<"An unexpected server error occurred during processing.">>)
             @@ ("success" :> FALSE), 500)

(* ------------------------------- handler ------------------------------- *)

\* Placeholder of the `resp` field while no response exists yet.
NoResponse == Response(<<>>, 0)

\* Where a run of the handler's code stands: it returned a response, an
\* exception is propagating, or it is inside generate_content waiting for
\* the provider's answer to `contents`; `calls` counts the completed
\* invocations of the provider.
Returned(resp, calls) ==
    [raised |-> FALSE, calling |-> FALSE, resp |-> resp, exc |-> Exc("", ""),
     calls |-> calls, contents |-> <<>>]

Raised(e, calls) ==
    [raised |-> TRUE, calling |-> FALSE, resp |-> NoResponse, exc |-> e,
     calls |-> calls, contents |-> <<>>]

Calling(contents) ==
    [raised |-> FALSE, calling |-> TRUE, resp |-> NoResponse, exc |-> Exc("", ""),
     calls |-> 0, contents |-> contents]
\* Variant: the field name of the other revision.
UserInputFromUserQuery(data) == DictGet(data, "userQuery", JStr(<<>>))

\* Line 47.
UserInput(data) == DictGet(data, "userInput", JStr(<<>>))
\* Variant: a failed call is tried once more.
CallProviderWithRetry(prov, contents) ==
    [out |-> prov[contents],
     calls |-> IF prov[contents].kind = "raise" THEN 2 ELSE 1]

\* Lines 98-107: one synchronous call, no retry.
CallProvider(prov, contents) == [out |-> prov[contents], calls |-> 1]

\* Lines 46-101, the try body up to the point where generate_content blocks.
TryBlockUntilCall(body) ==
    IF body.kind = "malformed" THEN Raised(Exc("BadRequest", "400 Bad Request"), 0)
    ELSE IF body.kind # "dict"
    THEN Raised(Exc("AttributeError", "object has no attribute 'get'"), 0)
    ELSE LET user_input == UserInput(body.obj) IN
         IF ~Truthy(user_input) THEN Returned(NoInputResponse, 0)
         ELSE Calling(full_prompt(user_input))

\* Lines 101-113, the try body from the provider's answer on.
TryBlockAfterCall(c) ==
    IF c.out.kind = "raise" THEN Raised(c.out.exc, c.calls)
    ELSE Returned(SuccessResponse(c.out.text), c.calls)

\* Lines 115-122: the two except clauses of the try statement.
ExceptClauses(r) ==
    IF ~r.raised THEN r
    ELSE IF r.exc.cls = APIError THEN Returned(APIErrorResponse(r.exc), r.calls)
    ELSE Returned(InternalErrorResponse(r.exc), r.calls)
\* Variant: the credential guard placed after the input validation.
generate_analysis_validate_first(key, body) ==
    LET r == ExceptClauses(TryBlockUntilCall(body)) IN
    IF ~r.calling /\ r.resp.status = 400 THEN r
    ELSE IF ~TruthyKey(key) THEN Returned(ConfigErrorResponse, 0)
    ELSE r

\* Lines 36-101: the view function, for the credential captured at import,
\* until it returns or blocks in generate_content.
generate_analysis(key, body) ==
    IF ~TruthyKey(key) THEN Returned(ConfigErrorResponse, 0)
    ELSE ExceptClauses(TryBlockUntilCall(body))

\* Lines 101-122: the view function from the provider's answer on.
generate_analysis_resume(contents, prov) ==
    ExceptClauses(TryBlockAfterCall(CallProvider(prov, contents)))

(* ------------------------------ start-up ------------------------------- *)

\* os.environ.get('GEMINI_API_KEY'), line 13.
EnvironGet(env) == env

\* load_dotenv(), line 129: sets the variables of the .env file that the
\* environment does not already define (override=False).
load_dotenv(env, file) == IF env = None /\ file # None THEN file ELSE env

Init ==
    /\ pc = "import"
    /\ shellEnv \in EnvValues
    /\ environ = shellEnv
    /\ dotenvFile \in DotenvValues
    /\ runAsMain \in BOOLEAN
    /\ werkzeugRunMain = FALSE
    /\ errorsModule \in BOOLEAN
    /\ GEMINI_API_KEY = None
    /\ provider \in Providers
    /\ inflight = EmptyBag
    /\ first = <<>>
    /\ last = <<>>
    /\ gap = "none"
    /\ handled = 0

\* Lines 1-122 executed at import: line 5 raises ModuleNotFoundError when
\* google.generativeai.errors is not importable, and the process ends;
\* otherwise line 13 captures the credential from the environment.
ImportModule ==
    /\ pc = "import"
    /\ IF errorsModule
       THEN /\ GEMINI_API_KEY' = EnvironGet(environ)
            /\ pc' = IF runAsMain THEN "main" ELSE "serving"
       ELSE /\ pc' = "crashed"
            /\ UNCHANGED GEMINI_API_KEY
    /\ UNCHANGED <<shellEnv, environ, dotenvFile, runAsMain, werkzeugRunMain,
                   errorsModule, provider, inflight, first, last, gap,
                   handled>>

\* Lines 126-129: under __main__, load the .env file into os.environ.
MainLoadDotenv ==
    /\ pc = "main"
    /\ environ' = load_dotenv(environ, dotenvFile)
    /\ pc' = "run"
    /\ UNCHANGED <<shellEnv, dotenvFile, runAsMain, werkzeugRunMain,
                   errorsModule, GEMINI_API_KEY, provider, inflight, first, last, gap,
                   handled>>
\* Variant: app.run without debug, serving in the first process.
AppRunNoReloader ==
    /\ pc = "run"
    /\ pc' = "serving"
    /\ UNCHANGED <<shellEnv, environ, dotenvFile, runAsMain, werkzeugRunMain,
                   errorsModule, GEMINI_API_KEY, provider, inflight, first, last, gap,
                   handled>>

\* Line 132: app.run(debug=True) turns the reloader on.  The first process
\* does not serve: it starts a child running the same script with a copy of
\* os.environ plus WERKZEUG_RUN_MAIN=true, and the child, finding that
\* variable set, serves the requests.
AppRun ==
    /\ pc = "run"
    /\ IF werkzeugRunMain
       THEN /\ pc' = "serving"
            /\ UNCHANGED <<werkzeugRunMain, GEMINI_API_KEY>>
       ELSE /\ pc' = "import"
            /\ werkzeugRunMain' = TRUE
            /\ GEMINI_API_KEY' = None
    /\ UNCHANGED <<shellEnv, environ, dotenvFile, runAsMain, errorsModule,
                   provider, inflight, first, last, gap,
                   handled>>

(* ------------------------------ requests ------------------------------- *)

\* A request, its response and its provider invocations.
Exchange(body, r) == [body |-> body, resp |-> r.resp, calls |-> r.calls]

\* The observer's record of the answered exchange x: `last` is the latest
\* exchange, `first` the one exchange of the run, any one, that the observer
\* keeps for comparison with the later ones, and `gap` tells what was
\* answered after the kept one and before the latest: "kept" (the latest is
\* the kept one), "none" (nothing, or nothing is kept yet), "failed" (only
\* failed exchanges) or "mixed" (a successful one among them).
Observe(x, remember) ==
    /\ remember => first = <<>>
    /\ last' = <<x>>
    /\ first' = IF remember THEN <<x>> ELSE first
    /\ gap' = IF remember THEN "kept"
              ELSE IF first = <<>> \/ gap = "kept" THEN "none"
              ELSE IF gap = "mixed" \/ last[1].resp.status = 200 THEN "mixed"
              ELSE "failed"
\* Variant: the handler drops the credential after a failed provider call.
GenerateAnalysisEndDroppingKey(q, remember) ==
    /\ pc = "serving"
    /\ BagIn(q, inflight)
    /\ LET x == Exchange(q.body, generate_analysis_resume(q.contents, provider)) IN
         /\ Observe(x, remember)
         /\ GEMINI_API_KEY' =
              IF x.resp.status = 500 THEN None ELSE GEMINI_API_KEY
    /\ inflight' = inflight (-) SetToBag({q})
    /\ UNCHANGED <<pc, shellEnv, environ, dotenvFile, runAsMain,
                   werkzeugRunMain, errorsModule, provider, handled>>

\* POST /api/generate_analysis with the given body arrives and a thread runs
\* the handler until it returns (lines 42, 50, 118, 122) or blocks in
\* generate_content (line 101); a blocked request stays in flight while the
\* server takes other requests.  `remember` is the observer keeping this
\* exchange for a later comparison.
GenerateAnalysisBegin(body, remember) ==
    /\ pc = "serving"
    /\ handled < MaxRequests
    /\ LET r == generate_analysis(GEMINI_API_KEY, body) IN
         IF r.calling
         THEN /\ inflight' = inflight (+)
                    SetToBag({[body |-> body, contents |-> r.contents]})
              /\ ~remember
              /\ UNCHANGED <<first, last, gap>>
         ELSE /\ Observe(Exchange(body, r), remember)
              /\ UNCHANGED inflight
    /\ handled' = handled + 1
    /\ UNCHANGED <<pc, shellEnv, environ, dotenvFile, runAsMain,
                   werkzeugRunMain, errorsModule, GEMINI_API_KEY, provider>>

\* The provider answers the call of the request q in flight (it returns a
\* text or raises) and the thread runs the handler to its return.
GenerateAnalysisEnd(q, remember) ==
    /\ pc = "serving"
    /\ BagIn(q, inflight)
    /\ Observe(Exchange(q.body, generate_analysis_resume(q.contents, provider)),
               remember)
    /\ inflight' = inflight (-) SetToBag({q})
    /\ UNCHANGED <<pc, shellEnv, environ, dotenvFile, runAsMain,
                   werkzeugRunMain, errorsModule, GEMINI_API_KEY, provider,
                   handled>>

Next ==
    \/ ImportModule
    \/ MainLoadDotenv
    \/ AppRun
    \/ \E body \in Bodies, remember \in BOOLEAN : GenerateAnalysisBegin(body, remember)
    \/ \E q \in BagToSet(inflight), remember \in BOOLEAN : GenerateAnalysisEnd(q, remember)

Spec == Init /\ [][Next]_vars

TypeOK ==
    /\ pc \in {"import", "main", "run", "serving", "crashed"}
    /\ shellEnv \in EnvValues
    /\ environ \in EnvValues \cup DotenvValues
    /\ GEMINI_API_KEY \in EnvValues \cup DotenvValues
    /\ provider \in Providers
    /\ handled \in 0..MaxRequests
    /\ IsABag(inflight) /\ BagCardinality(inflight) <= handled
    /\ \A q \in BagToSet(inflight) : q.contents \in Prompts
    /\ Len(first) <= 1 /\ Len(last) <= 1
    /\ gap \in {"kept", "none", "failed", "mixed"}

(* ------------------------- vocabulary of the claims -------------------- *)

\* A request has been answered; Req is the latest exchange.
Answered == pc = "serving" /\ last # <<>>

Req == last[1]

Configured == TruthyKey(GEMINI_API_KEY)

IsObject(body) == body.kind = "dict"

\* The JSON object carries a non-empty 'userInput'.
HasInput(body) ==
    /\ IsObject(body)
    /\ "userInput" \in DOMAIN body.obj
    /\ Truthy(body.obj["userInput"])

\* What the provider does with the prompt built from the body's 'userInput'.
OutcomeFor(body) == provider[full_prompt(body.obj["userInput"])]

Populated(resp, k) == k \in DOMAIN resp.json

IsErrorEnvelope(resp) ==
    /\ Populated(resp, "error")
    /\ Populated(resp, "success")
    /\ resp.json["success"] = FALSE
    /\ Len(resp.json["error"]) > 0

\* json.loads would accept the text.
IsValidJson(t) == t = JsonText

Contains(text, fragment) == \E i \in 1..Len(text) : text[i] = fragment

ConfigErrorText ==
    <<"Server configuration error: Gemini API key is missing. Please set the GEMINI_API_KEY environment variable.">>

GenericErrorText == <<"An unexpected server error occurred during processing.">>

ProviderAPIErrors == {APIError, GenaiAPIError}

(* -------------------------------- claims ------------------------------- *)

\* C1: without a credential every request, whatever its body, is answered
\* 500 with success=false and an error text; never 400.
C1_NoCredentialAlways500 ==
    (Answered /\ ~Configured) =>
        /\ Req.resp.status = 500
        /\ IsErrorEnvelope(Req.resp)

C1_Witness ==
    /\ Answered /\ ~Configured
    /\ IsObject(Req.body) /\ ~HasInput(Req.body)
    /\ Req.resp.status = 500

\* C2: with a credential, a JSON object without 'userInput' or with an empty
\* one is answered 400 with success=false and an error text, and the
\* provider is not called.
C2_MissingInput400 ==
    (Answered /\ Configured /\ IsObject(Req.body) /\ ~HasInput(Req.body)) =>
        /\ Req.resp.status = 400
        /\ IsErrorEnvelope(Req.resp)
        /\ Req.calls = 0

C2_Witness ==
    /\ Answered /\ Configured
    /\ IsObject(Req.body)
    /\ "userInput" \notin DOMAIN Req.body.obj
    /\ "userQuery" \in DOMAIN Req.body.obj
    /\ Req.resp.status = 400

\* C3: with a credential and a non-empty 'userInput', a provider call that
\* returns text T is answered 200 with success=true, analysisText = T
\* unchanged, and no error key.
C3_TextPassedThrough ==
    (Answered /\ Configured /\ HasInput(Req.body)
       /\ OutcomeFor(Req.body).kind = "return") =>
        /\ Req.resp.status = 200
        /\ Populated(Req.resp, "analysisText")
        /\ Req.resp.json["analysisText"] = OutcomeFor(Req.body).text
        /\ Req.resp.json["success"] = TRUE
        /\ ~Populated(Req.resp, "error")

C3_Witness ==
    /\ Answered /\ Configured /\ HasInput(Req.body)
    /\ OutcomeFor(Req.body).kind = "return"
    /\ Req.resp.json["analysisText"] = BrokenJsonText

\* C4: with a credential and a non-empty 'userInput', a provider call that
\* raises a provider API error with message M is answered 500 with
\* success=false and an error text containing M.
C4_ProviderErrorEmbedded ==
    (Answered /\ Configured /\ HasInput(Req.body)
       /\ OutcomeFor(Req.body).kind = "raise"
       /\ OutcomeFor(Req.body).exc.cls \in ProviderAPIErrors) =>
        /\ Req.resp.status = 500
        /\ IsErrorEnvelope(Req.resp)
        /\ Contains(Req.resp.json["error"], OutcomeFor(Req.body).exc.msg)

\* C5: with a credential, an exception that is not a provider API error
\* (reading a body that is not a JSON object, or a failure of the call) is
\* answered 500 with success=false and the one fixed generic text.
C5_GenericInternalError ==
    (Answered /\ Configured
       /\ \/ ~IsObject(Req.body)
          \/ /\ HasInput(Req.body)
             /\ OutcomeFor(Req.body).kind = "raise"
             /\ OutcomeFor(Req.body).exc.cls \notin ProviderAPIErrors) =>
        /\ Req.resp.status = 500
        /\ IsErrorEnvelope(Req.resp)
        /\ Req.resp.json["error"] = GenericErrorText

C5_Witness ==
    /\ Answered /\ Configured /\ HasInput(Req.body)
    /\ OutcomeFor(Req.body).kind = "raise"
    /\ OutcomeFor(Req.body).exc.cls = "TimeoutError"
    /\ Req.resp.json["error"] = GenericErrorText

\* C6: every response populates exactly one of analysisText, analysisData
\* and error, success is true exactly when that key is a payload key, and
\* the status is 200 exactly when success is true, 400 or 500 otherwise.
C6_EnvelopeShape ==
    Answered =>
        /\ Cardinality({k \in {"analysisText", "analysisData", "error"} :
                          Populated(Req.resp, k)}) = 1
        /\ Populated(Req.resp, "success")
        /\ Req.resp.json["success"] = ~Populated(Req.resp, "error")
        /\ (Req.resp.status = 200) = Req.resp.json["success"]
        /\ Req.resp.status \in {200, 400, 500}

C6_Witness ==
    /\ Answered
    /\ Req.resp.status = 400
    /\ first # <<>> /\ first[1].resp.status = 200

\* C7: with a credential, a non-empty 'userInput' and an instruction that
\* demands strict JSON, a returned text that is not valid JSON is answered
\* 500 with success=false and an error text.
C7_MalformedJsonRejected ==
    (Answered /\ Configured /\ HasInput(Req.body)
       /\ system_instruction.output_format = "STRICTLY as a JSON object"
       /\ OutcomeFor(Req.body).kind = "return"
       /\ ~IsValidJson(OutcomeFor(Req.body).text)) =>
        /\ Req.resp.status = 500
        /\ IsErrorEnvelope(Req.resp)

\* C8: one request invokes the provider at most once: exactly once with a
\* credential and a non-empty 'userInput' (no retry after an error), and not
\* at all when rejected for a missing credential or missing input.
C8_FireOnce ==
    Answered =>
        /\ Req.calls <= 1
        /\ (Configured /\ HasInput(Req.body)) => Req.calls = 1
        /\ (~Configured \/ (IsObject(Req.body) /\ ~HasInput(Req.body))) =>
              Req.calls = 0

C8_Witness ==
    /\ Answered /\ Configured /\ HasInput(Req.body)
    /\ OutcomeFor(Req.body).kind = "raise"
    /\ Req.calls = 1

\* C9: two requests with the same body, whatever was handled before and
\* between them (successful or failed, overlapping or not), get the same
\* envelope and status, and no request changes the credential.
C9_Stateless ==
    /\ [](  (Answered /\ first # <<>> /\ first[1].body = Req.body)
            => first[1].resp = Req.resp)
    /\ [][pc = "serving" => GEMINI_API_KEY' = GEMINI_API_KEY]_vars

C9_Witness ==
    /\ Answered /\ Configured
    /\ first # <<>> /\ gap = "mixed"
    /\ first[1].body = Req.body
    /\ first[1].resp.status = 500 /\ first[1].calls = 1

\* C10: run as the main script with the credential only in the .env file,
\* the handler's credential is the one of the .env file, and no request is
\* answered with the missing-credential error.
C10_DotenvCredentialUsed ==
    (pc = "serving" /\ runAsMain /\ shellEnv = None /\ dotenvFile # None) =>
        /\ GEMINI_API_KEY = dotenvFile
        /\ last # <<>> =>
              ~(Populated(Req.resp, "error")
                  /\ Req.resp.json["error"] = ConfigErrorText)

C10_Witness ==
    /\ Answered /\ runAsMain /\ shellEnv = None /\ dotenvFile = FileKey
    /\ Req.resp.status = 200

====
